---- MODULE Spec2Model ----
(***************************************************************************)
(* A model of BM2Excel (src/bookmark2excel.py): the recursive bookmark     *)
(* extraction BookmarkProcessor.process_bookmarks, the folder filter       *)
(* filter_bookmarks, the level split split_folder_levels, and the workflow *)
(* of run with the folder picker, the file dialogs and the write step.     *)
(*                                                                         *)
(* Python strings are modelled as sequences of one-character strings, so   *)
(* that strip, replace, split, lower and int() are computed character by   *)
(* character as CPython computes them.  The parsed document (the           *)
(* BeautifulSoup tree) is a sequence of element nodes in document order    *)
(* (pre-order), each with its nesting depth; links (a) and headers (h3)    *)
(* hold text only, containers (dl) hold child elements.                    *)
(***************************************************************************)
EXTENDS Integers, Sequences, FiniteSets, TLC

VARIABLES
    cancelled,        \* BookmarkProcessor.cancelled
    pc,               \* position of the caller
    elements,         \* the document handed to process_bookmarks
    outcome,          \* how the call of process_bookmarks ended
    all_bookmarks,    \* the list process_bookmarks returned
    df_in,            \* the DataFrame handed to filter_bookmarks
    selected_folders, \* the selection handed to filter_bookmarks
    df,               \* the DataFrame filter_bookmarks returned
    df2,              \* the result of filtering df once more
    levels,           \* the Level_i columns split_folder_levels added
    file_path,        \* run: the input file get_file_path returned
    excel_path,       \* run: the output path get_save_file_path returned
    input_file_column,\* run: whether the "Input File" column was inserted
    calls,            \* run: the workflow calls made so far, in order
    returns,          \* run: the workflow calls that returned, in order
    exit_status,      \* the exit status of the process, -1 while it runs
    error_shown,      \* whether the error dialog of line 482 was shown
    output_files      \* the number of output files written

\* the state of one execution of run
run_vars == <<file_path, excel_path, input_file_column, calls, returns,
              exit_status, error_shown, output_files>>

vars == <<cancelled, pc, elements, outcome, all_bookmarks,
          df_in, selected_folders, df, df2, levels, run_vars>>

-----------------------------------------------------------------------------
(* Bounds of the model.                                                    *)

MaxNodes == 5

MaxRecords == 3

MaxSelected == 2

-----------------------------------------------------------------------------
(* Program constants.                                                      *)

DEFAULT_FOLDER == <<"A","l","l"," ","B","o","o","k","m","a","r","k","s">>

MAX_FOLDER_LEVELS == 10

-----------------------------------------------------------------------------
(* Python str operations on sequences of characters.                       *)

Whitespace == {" ", "\t", "\n"}

RECURSIVE LStrip(_)
LStrip(s) ==
    IF s # <<>> /\ Head(s) \in Whitespace THEN LStrip(Tail(s)) ELSE s

RECURSIVE RStrip(_)
RStrip(s) ==
    IF s # <<>> /\ s[Len(s)] \in Whitespace
    THEN RStrip(SubSeq(s, 1, Len(s) - 1))
    ELSE s

\* str.strip()
Strip(s) == RStrip(LStrip(s))

StartsWith(s, p) == Len(s) >= Len(p) /\ SubSeq(s, 1, Len(p)) = p

\* str.replace(old, new) for a non-empty old: the leftmost occurrence is
\* replaced and the scan goes on after it (occurrences do not overlap).
RECURSIVE Replace(_, _, _)
Replace(s, old, new) ==
    IF s = <<>> THEN <<>>
    ELSE IF StartsWith(s, old)
         THEN new \o Replace(SubSeq(s, Len(old) + 1, Len(s)), old, new)
         ELSE <<Head(s)>> \o Replace(Tail(s), old, new)

\* str.split(sep) for a one-character sep: "" gives [""].
RECURSIVE SplitAcc(_, _, _)
SplitAcc(s, sep, cur) ==
    IF s = <<>> THEN <<cur>>
    ELSE IF Head(s) = sep
         THEN <<cur>> \o SplitAcc(Tail(s), sep, <<>>)
         ELSE SplitAcc(Tail(s), sep, Append(cur, Head(s)))

Split(s, sep) == SplitAcc(s, sep, <<>>)

UpperLetters ==
    <<"A","B","C","D","E","F","G","H","I","J","K","L","M",
      "N","O","P","Q","R","S","T","U","V","W","X","Y","Z">>

LowerLetters ==
    <<"a","b","c","d","e","f","g","h","i","j","k","l","m",
      "n","o","p","q","r","s","t","u","v","w","x","y","z">>

LowerChar(c) ==
    IF \E i \in 1..Len(UpperLetters) : UpperLetters[i] = c
    THEN LowerLetters[CHOOSE i \in 1..Len(UpperLetters) : UpperLetters[i] = c]
    ELSE c

\* str.lower()
Lower(s) == [i \in 1..Len(s) |-> LowerChar(s[i])]

\* sep.join(parts)
RECURSIVE Join(_, _)
Join(parts, sep) ==
    IF parts = <<>> THEN <<>>
    ELSE IF Len(parts) = 1 THEN parts[1]
    ELSE parts[1] \o sep \o Join(Tail(parts), sep)

Slash == <<"/">>

Placeholder == <<"_","_","_">>

-----------------------------------------------------------------------------
(* int(date_added) and datetime.fromtimestamp(...).strftime(DATE_FORMAT).  *)
(* Python integers are unbounded: a parsed integer is kept as its sign and *)
(* its decimal digits without leading zeros (no digits: zero).             *)

DigitChars == <<"0","1","2","3","4","5","6","7","8","9">>

IsDigit(c) == \E i \in 1..10 : DigitChars[i] = c

DigitVal(c) == (CHOOSE i \in 1..10 : DigitChars[i] = c) - 1

RECURSIVE DropUnderscores(_)
DropUnderscores(s) ==
    IF s = <<>> THEN <<>>
    ELSE IF Head(s) = "_" THEN DropUnderscores(Tail(s))
    ELSE <<Head(s)>> \o DropUnderscores(Tail(s))

RECURSIVE DropLeadingZeros(_)
DropLeadingZeros(s) ==
    IF s # <<>> /\ Head(s) = "0" THEN DropLeadingZeros(Tail(s)) ELSE s

\* The digits part of an integer literal: digits, single underscores
\* allowed between digits only.
ValidDigits(b) ==
    /\ b # <<>>
    /\ IsDigit(b[1])
    /\ IsDigit(b[Len(b)])
    /\ \A i \in 1..Len(b) : IsDigit(b[i]) \/ b[i] = "_"
    /\ \A i \in 1..(Len(b) - 1) : ~(b[i] = "_" /\ b[i + 1] = "_")

\* int(s) for a str s: surrounding whitespace is ignored, one optional
\* sign; anything else raises ValueError (ok = FALSE).
ParseInt(s) ==
    LET t == Strip(s)
        signed == t # <<>> /\ Head(t) \in {"+", "-"}
        body == IF signed THEN Tail(t) ELSE t
    IN  IF ValidDigits(body)
        THEN [ok |-> TRUE,
              neg |-> signed /\ Head(t) = "-",
              digits |-> DropLeadingZeros(DropUnderscores(body))]
        ELSE [ok |-> FALSE, neg |-> FALSE, digits |-> <<>>]

\* a <= b for two digit strings without leading zeros
RECURSIVE LexLeq(_, _)
LexLeq(a, b) ==
    IF a = <<>> THEN TRUE
    ELSE IF DigitVal(Head(a)) # DigitVal(Head(b))
         THEN DigitVal(Head(a)) < DigitVal(Head(b))
         ELSE LexLeq(Tail(a), Tail(b))

DigitsLeq(a, b) ==
    \/ Len(a) < Len(b)
    \/ Len(a) = Len(b) /\ LexLeq(a, b)

\* The last second of year 9999 (datetime.max): beyond it fromtimestamp
\* raises ValueError("year ... is out of range").
MaxDatetimeTs == <<"2","5","3","4","0","2","3","0","0","7","9","9">>

\* The last second the platform's localtime() converts (glibc, 64-bit
\* time_t): beyond it fromtimestamp raises OSError or OverflowError.
MaxLocaltimeTs ==
    <<"6","7","7","6","8","0","3","6","1","9","1","6","7","6","7","9","9">>

\* (quotient, remainder) of a digit string by d, by long division
RECURSIVE DivModAcc(_, _, _, _)
DivModAcc(digits, d, q, r) ==
    IF digits = <<>> THEN <<q, r>>
    ELSE LET n == r * 10 + DigitVal(Head(digits))
         IN  DivModAcc(Tail(digits), d, q * 10 + (n \div d), n % d)

DivMod(digits, d) == DivModAcc(digits, d, 0, 0)

RECURSIVE NumToDigits(_)
NumToDigits(n) ==
    IF n < 10 THEN <<DigitChars[n + 1]>>
    ELSE Append(NumToDigits(n \div 10), DigitChars[(n % 10) + 1])

RECURSIVE ZeroPad(_, _)
ZeroPad(s, width) == IF Len(s) >= width THEN s ELSE ZeroPad(<<"0">> \o s, width)

\* %Y, %m, %d, %H, %M, %S fields
Field(n, width) == ZeroPad(NumToDigits(n), width)

\* The civil date of a day count since 1970-01-01 (proleptic Gregorian
\* calendar), as <<year, month, day>>.
CivilFromDays(days) ==
    LET z == days + 719468
        era == z \div 146097
        doe == z - era * 146097
        yoe == (doe - doe \div 1460 + doe \div 36524 - doe \div 146096) \div 365
        doy == doe - (365 * yoe + yoe \div 4 - yoe \div 100)
        mp == (5 * doy + 2) \div 153
        d == doy - (153 * mp + 2) \div 5 + 1
        m == IF mp < 10 THEN mp + 3 ELSE mp - 9
        y == yoe + era * 400 + (IF m <= 2 THEN 1 ELSE 0)
    IN  <<y, m, d>>

\* datetime.fromtimestamp(ts).strftime("%Y-%m-%d %H:%M:%S") for a
\* timestamp within datetime's range; the host's zone is taken as UTC.
FormatTimestamp(digits) ==
    LET dm == DivMod(digits, 86400)
        ymd == CivilFromDays(dm[1])
        secs == dm[2]
    IN  Field(ymd[1], 4) \o <<"-">> \o Field(ymd[2], 2) \o <<"-">>
        \o Field(ymd[3], 2) \o <<" ">> \o Field(secs \div 3600, 2) \o <<":">>
        \o Field((secs % 3600) \div 60, 2) \o <<":">> \o Field(secs % 60, 2)

\* Lines 287-298: the date string of a link, or the exception that leaves
\* the try block uncaught (raised = TRUE).  ValueError is caught and gives
\* ''; OSError and OverflowError are not among the caught exceptions.
DateStrOf(date_added) ==
    LET n == ParseInt(date_added)
    IN  IF date_added = <<>> THEN [raised |-> FALSE, str |-> <<>>]
        ELSE IF ~n.ok THEN [raised |-> FALSE, str |-> <<>>]
        ELSE IF n.neg \/ n.digits = <<>> THEN [raised |-> FALSE, str |-> <<>>]
        ELSE IF DigitsLeq(n.digits, MaxDatetimeTs)
             THEN [raised |-> FALSE, str |-> FormatTimestamp(n.digits)]
        ELSE IF DigitsLeq(n.digits, MaxLocaltimeTs)
             THEN [raised |-> FALSE, str |-> <<>>]
        ELSE [raised |-> TRUE, str |-> <<>>]

-----------------------------------------------------------------------------
(* The parsed document and the BeautifulSoup queries the program makes.    *)
(* A document is the sequence of its element nodes in document order; a    *)
(* node's parent is the nearest earlier node one level up, and only a dl   *)
(* has children.                                                           *)

LinkNode(d, a) ==
    [name |-> "a", depth |-> d, text |-> a.text, href |-> a.href,
     add_date |-> a.add_date]

HeaderNode(d, t) ==
    [name |-> "h3", depth |-> d, text |-> t, href |-> <<>>, add_date |-> <<>>]

DlNode(d) ==
    [name |-> "dl", depth |-> d, text |-> <<>>, href |-> <<>>, add_date |-> <<>>]

\* j lies inside element i
IsDescendant(doc, i, j) ==
    /\ i < j
    /\ \A k \in (i + 1)..j : doc[k].depth > doc[i].depth

\* j is a later sibling of i (same parent)
IsLaterSibling(doc, i, j) ==
    /\ i < j
    /\ doc[j].depth = doc[i].depth
    /\ \A k \in (i + 1)..j : doc[k].depth >= doc[i].depth

Indices(doc) == [i \in 1..Len(doc) |-> i]

IsLinkOrHeader(doc, j) == doc[j].name \in {"a", "h3"}

\* tag.find_all(["a", "h3"]): the a and h3 descendants of node root in
\* document order; root = 0 is the soup itself (line 459).
FindAll(doc, root) ==
    LET Wanted(j) == /\ IsLinkOrHeader(doc, j)
                     /\ (root = 0 \/ IsDescendant(doc, root, j))
    IN  SelectSeq(Indices(doc), Wanted)

\* item.find_next_sibling("dl"): the first later sibling named dl,
\* whatever lies between; 0 stands for None.
FindNextSiblingDl(doc, i) ==
    LET cands == {j \in 1..Len(doc) :
                     IsLaterSibling(doc, i, j) /\ doc[j].name = "dl"}
    IN  IF cands = {} THEN 0
        ELSE CHOOSE j \in cands : \A k \in cands : j <= k

-----------------------------------------------------------------------------
(* BookmarkProcessor.process_bookmarks.  The bookmarks dict is the         *)
(* sequence of its values in insertion order (one per key, the URL).       *)

HasKey(bookmarks, href) == \E i \in 1..Len(bookmarks) : bookmarks[i].URL = href

\* line 306
FolderName(text) == Replace(Strip(text), Slash, Placeholder)

\* line 351: the level value of a path segment
Unescape(segment) == Replace(segment, Placeholder, Slash)

\* line 309
NewParent(parent_folder, folder_name) ==
    IF parent_folder # <<>> THEN parent_folder \o Slash \o folder_name
    ELSE folder_name

\* lines 285-304: the walk's state after an a element
VisitLink(item, parent_folder, st) ==
    LET href == item.href
        date == DateStrOf(item.add_date)
    IN  IF href # <<>> /\ ~HasKey(st.bookmarks, href)
        THEN IF date.raised THEN [st EXCEPT !.exc = "Error"]
             ELSE [st EXCEPT !.bookmarks =
                      Append(@, [Bookmark |-> Strip(item.text),
                                 URL |-> href,
                                 Folder |-> parent_folder,
                                 Date_Added |-> date.str])]
        ELSE st

\* a walk that never reads the flag
CancelNeverRequested(flag) == FALSE

\* line 282
CancelRequested(flag) == flag

\* lines 281-310: the loop over elements, the recursion into a header's
\* container included.  st.exc names the exception that is propagating.
RECURSIVE ProcessElements(_, _, _, _, _)
ProcessElements(doc, flag, elems, parent_folder, st) ==
    IF elems = <<>> \/ st.exc # "none" THEN st
    ELSE IF CancelRequested(flag) THEN [st EXCEPT !.exc = "CancelException"]
    ELSE LET item == doc[Head(elems)]
             dl_tag == FindNextSiblingDl(doc, Head(elems))
             after ==
                 IF item.name = "a" THEN VisitLink(item, parent_folder, st)
                 ELSE IF item.name = "h3" /\ dl_tag # 0
                 THEN ProcessElements(doc, flag, FindAll(doc, dl_tag),
                          NewParent(parent_folder, FolderName(item.text)), st)
                 ELSE st
         IN  ProcessElements(doc, flag, Tail(elems), parent_folder, after)

\* lines 279-311 called on soup.find_all(["a", "h3"]) (line 459): how the
\* call ends and, when it returns, list(bookmarks.values()).
process_bookmarks(doc, flag) ==
    LET st == ProcessElements(doc, flag, FindAll(doc, 0), <<>>,
                              [bookmarks |-> <<>>, exc |-> "none"])
    IN  IF st.exc = "none" THEN [status |-> "returned", records |-> st.bookmarks]
        ELSE [status |-> st.exc, records |-> <<>>]

-----------------------------------------------------------------------------
(* The documents the extraction is run on (line 452 parses them from the   *)
(* chosen file): every document of at most MaxNodes elements over the     *)
(* links and the header texts below, and the documents that consist of one *)
(* link with any of the href and add_date values below.                    *)

Url1 == <<"u","1">>

Url2 == <<"u","2">>

\* two links to the same URL that differ in title and date, and a third
LinkAttrs ==
    { [text |-> <<" ","T","1"," ">>, href |-> Url1,
       add_date |-> <<"1","7","0","0","0","0","0","0","0","0">>],
      [text |-> <<"T","2">>, href |-> Url1, add_date |-> <<>>],
      [text |-> <<"T","3">>, href |-> Url2, add_date |-> <<"0">>] }

HeaderTexts == { <<" ","A">>, <<>>, <<"_","/">> }

AddDates ==
    { <<>>, <<"a","b","c">>, <<"0">>, <<"-","5">>, <<"+","7">>,
      <<" ","1","_","0"," ">>, <<"1","_","_","0">>,
      <<"1","7","0","0","0","0","0","0","0","0">>,
      MaxDatetimeTs,
      <<"2","5","3","4","0","2","3","0","0","8","0","0">>,
      MaxLocaltimeTs,
      <<"6","7","7","6","8","0","3","6","1","9","1","6","7","6","8","0","0">>,
      <<"9","9","9","9","9","9","9","9","9","9",
        "9","9","9","9","9","9","9","9","9","9">> }

DatedLinkAttrs ==
    { [text |-> <<"T","4">>, href |-> h, add_date |-> x] :
        h \in {Url2, <<>>}, x \in AddDates }

IsDatedLink(node) == node.name = "a" /\ node.text = <<"T","4">>

\* the elements that may follow the elements of d in document order
NextNodes(d) ==
    LET deepest == IF d = <<>> THEN 0
                   ELSE IF d[Len(d)].name = "dl" THEN d[Len(d)].depth + 1
                   ELSE d[Len(d)].depth
    IN  IF d # <<>> /\ IsDatedLink(d[1]) THEN {}
        ELSE UNION { {LinkNode(k, a) : a \in LinkAttrs}
                     \cup {HeaderNode(k, t) : t \in HeaderTexts}
                     \cup {DlNode(k)} : k \in 0..deepest }
             \cup (IF d = <<>> THEN {LinkNode(0, a) : a \in DatedLinkAttrs}
                   ELSE {})

-----------------------------------------------------------------------------
(* The extraction, called on a processor whose flag may have been raised.  *)

Init ==
    /\ cancelled = FALSE
    /\ pc = "parsing"
    /\ elements = <<>>
    /\ outcome = "none"
    /\ all_bookmarks = <<>>
    /\ df_in = <<>>
    /\ selected_folders = <<>>
    /\ df = <<>>
    /\ df2 = <<>>
    /\ levels = <<>>
    /\ file_path = <<>>
    /\ excel_path = <<>>
    /\ input_file_column = FALSE
    /\ calls = <<>>
    /\ returns = <<>>
    /\ exit_status = -1
    /\ error_shown = FALSE
    /\ output_files = 0

\* line 452: the parser adds the file's next element to the tree
ParseElement ==
    /\ pc = "parsing"
    /\ ~cancelled
    /\ Len(elements) < MaxNodes
    /\ \E x \in NextNodes(elements) : elements' = Append(elements, x)
    /\ UNCHANGED <<cancelled, pc, outcome, all_bookmarks,
                   df_in, selected_folders, df, df2, levels,
                   run_vars>>

\* lines 224 and 255: on_cancel and on_window_close raise the flag.  A
\* caller that goes on to call process_bookmarks has caught the SystemExit
\* both raise afterwards.
RaiseCancelled ==
    /\ pc = "parsing"
    /\ ~cancelled
    /\ cancelled' = TRUE
    /\ UNCHANGED <<pc, elements, outcome, all_bookmarks,
                   df_in, selected_folders, df, df2, levels,
                   run_vars>>

\* line 459: process_bookmarks(soup.find_all(["a", "h3"]))
CallProcessBookmarks ==
    /\ pc = "parsing"
    /\ LET r == process_bookmarks(elements, cancelled)
       IN  /\ outcome' = r.status
           /\ all_bookmarks' = r.records
    /\ pc' = "extracted"
    /\ UNCHANGED <<cancelled, elements, df_in, selected_folders, df, df2, levels,
                   run_vars>>

NextExtract == ParseElement \/ RaiseCancelled \/ CallProcessBookmarks

SpecExtract == Init /\ [][NextExtract]_vars

-----------------------------------------------------------------------------
(* What the specification says of a document, for the claims below.        *)

Extracted == pc = "extracted"

Returned == pc = "extracted" /\ outcome = "returned"

LinkIndices(doc) == {j \in 1..Len(doc) : doc[j].name = "a"}

HeaderIndices(doc) == {i \in 1..Len(doc) : doc[i].name = "h3"}

\* the links that can be recorded at all (non-empty target reference)
LinksTo(doc, url) == {j \in LinkIndices(doc) : doc[j].href = url}

FirstLinkTo(doc, url) ==
    CHOOSE j \in LinksTo(doc, url) : \A k \in LinksTo(doc, url) : j <= k

\* header i is immediately followed, as a sibling, by its child container
HasContainer(doc, i) ==
    /\ doc[i].name = "h3"
    /\ i < Len(doc)
    /\ doc[i + 1].name = "dl"
    /\ doc[i + 1].depth = doc[i].depth

AllHeadersHaveContainers(doc) == \A i \in HeaderIndices(doc) : HasContainer(doc, i)

\* the folder headers that enclose element j, from the root to the leaf
EnclosingHeaders(doc, j) ==
    LET Encloses(i) == HasContainer(doc, i) /\ IsDescendant(doc, i + 1, j)
    IN  SelectSeq(Indices(doc), Encloses)

EscapedNames(doc, hs) == [k \in 1..Len(hs) |-> FolderName(doc[hs[k]].text)]

\* the escaped names of the enclosing headers joined by "/"
JoinedPath(doc, j) == Join(EscapedNames(doc, EnclosingHeaders(doc, j)), Slash)

\* the same names accumulated the way line 309 extends a path
RECURSIVE Accumulate(_, _)
Accumulate(names, path) ==
    IF names = <<>> THEN path
    ELSE Accumulate(Tail(names), NewParent(path, Head(names)))

AccumulatedPath(doc, j) ==
    Accumulate(EscapedNames(doc, EnclosingHeaders(doc, j)), <<>>)

RecordOf(records, url) ==
    records[CHOOSE i \in 1..Len(records) : records[i].URL = url]

DistinctUrls(records) ==
    \A i, j \in 1..Len(records) : records[i].URL = records[j].URL => i = j

-----------------------------------------------------------------------------
(* The claims about the extraction.                                        *)

\* C1: whenever process_bookmarks returns, the result holds at most one
\* record per url, and for each url found on two or more links the record
\* carries the title, folder path and date of the first of them in
\* document order.
C1_FirstOccurrenceWins ==
    Returned =>
        /\ DistinctUrls(all_bookmarks)
        /\ \A i \in 1..Len(all_bookmarks) :
              LET r == all_bookmarks[i]
                  first == FirstLinkTo(elements, r.URL)
              IN  Cardinality(LinksTo(elements, r.URL)) >= 2 =>
                     /\ r.Bookmark = Strip(elements[first].text)
                     /\ r.Folder = AccumulatedPath(elements, first)
                     /\ r.Date_Added = DateStrOf(elements[first].add_date).str

\* C2: whenever process_bookmarks returns on a document in which every
\* folder header is immediately followed by its container, the folder path
\* of every record is the escaped names of the headers enclosing its link,
\* joined by "/" from the root to the leaf.
C2_PathIsJoinedNames ==
    (Returned /\ AllHeadersHaveContainers(elements)) =>
        \A i \in 1..Len(all_bookmarks) :
            all_bookmarks[i].Folder =
                JoinedPath(elements, FirstLinkTo(elements, all_bookmarks[i].URL))

\* C3: for every folder header whose name contains "/", the escaped name
\* process_bookmarks puts into the path holds no "/" and unescapes, in
\* split_folder_levels, to the name itself.
C3_EscapeRoundTrip ==
    Extracted =>
        \A i \in HeaderIndices(elements) :
            LET name == Strip(elements[i].text)
            IN  (\E k \in 1..Len(name) : name[k] = "/") =>
                   /\ \A k \in 1..Len(FolderName(name)) : FolderName(name)[k] # "/"
                   /\ Len(Split(FolderName(name), "/")) = 1
                   /\ Unescape(FolderName(name)) = name

\* C4 as stated: whatever the elements, a call made with the flag raised
\* ends in CancelException and returns nothing.
C4_CancelledForEveryInput ==
    (Extracted /\ cancelled) =>
        (outcome = "CancelException" /\ all_bookmarks = <<>>)

\* C4 as amended: a call made with the flag raised on a non-empty list of
\* elements ends in CancelException and returns no records.
C4_CancelledWhenNonEmpty ==
    (Extracted /\ cancelled /\ FindAll(elements, 0) # <<>>) =>
        (outcome = "CancelException" /\ all_bookmarks = <<>>)

C4_Witness ==
    /\ Extracted
    /\ cancelled
    /\ Len(FindAll(elements, 0)) >= 2
    /\ outcome = "CancelException"

\* no link of the document has an add_date that raises past the handler
NoDateRaises(doc) ==
    \A j \in LinkIndices(doc) : ~DateStrOf(doc[j].add_date).raised

\* C5: a call made with the flag down on a document whose dates raise
\* nothing returns, and the folder path of every record is built from
\* headers that are immediately followed by their container and enclose a
\* link to the record's url: a header without its container names no
\* segment and takes no links of a later container.
C5_HeaderWithoutContainer ==
    /\ (Extracted /\ ~cancelled /\ NoDateRaises(elements)) => outcome = "returned"
    /\ Returned =>
          \A i \in 1..Len(all_bookmarks) :
              \E j \in LinksTo(elements, all_bookmarks[i].URL) :
                  all_bookmarks[i].Folder = AccumulatedPath(elements, j)

\* the add_date value cannot be turned into a date
NoDate(date_added) ==
    LET n == ParseInt(date_added)
    IN  \/ date_added = <<>>
        \/ ~n.ok
        \/ n.neg
        \/ n.digits = <<>>
        \/ ~DigitsLeq(n.digits, MaxDatetimeTs)

\* C9: whatever the add_date values, a call made with the flag down
\* returns, every link with a target reference has its record, and the
\* record's date is empty when the first link's add_date is absent, not
\* positive or not convertible.
C9_DateNeverAnError ==
    (Extracted /\ ~cancelled) =>
        /\ outcome = "returned"
        /\ \A j \in LinkIndices(elements) :
              elements[j].href # <<>> =>
                 /\ HasKey(all_bookmarks, elements[j].href)
                 /\ \A i \in 1..Len(all_bookmarks) :
                       (/\ all_bookmarks[i].URL = elements[j].href
                        /\ all_bookmarks[i].Bookmark = Strip(elements[j].text)
                        /\ NoDate(elements[j].add_date))
                       => all_bookmarks[i].Date_Added = <<>>

-----------------------------------------------------------------------------
(* BookmarkProcessor.filter_bookmarks and split_folder_levels.  A          *)
(* DataFrame is the sequence of its rows.                                  *)

Range(seq) == {seq[i] : i \in 1..Len(seq)}

\* a sentinel that counts only as the first name of the selection
SentinelSelectedFirst(selected) ==
    selected # <<>> /\ Strip(selected[1]) = DEFAULT_FOLDER

\* line 327
SentinelSelected(selected) ==
    \E i \in 1..Len(selected) : Strip(selected[i]) = DEFAULT_FOLDER

\* line 329
SelectedSet(selected) == {Lower(Strip(selected[i])) : i \in 1..Len(selected)}

\* a comparison that does not lower the segment
is_in_selected_cased(folder_path, selected_set) ==
    IF folder_path = <<>> THEN FALSE
    ELSE \E part \in Range(Split(folder_path, "/")) : part \in selected_set

\* lines 330-333
is_in_selected(folder_path, selected_set) ==
    IF folder_path = <<>> THEN FALSE
    ELSE \E part \in Range(Split(folder_path, "/")) : Lower(part) \in selected_set

\* a mask that is one row out of line with the frame it indexes
filter_bookmarks_shifted(frame, selected) ==
    LET kept == {r \in 1..(Len(frame) - 1) :
                    is_in_selected(frame[r + 1].Folder, SelectedSet(selected))}
    IN  IF SentinelSelected(selected) THEN frame
        ELSE [k \in 1..Cardinality(kept) |->
                 frame[CHOOSE r \in kept :
                          Cardinality({q \in kept : q <= r}) = k]]

\* lines 327-334
filter_bookmarks(frame, selected) ==
    LET Keep(row) == is_in_selected(row.Folder, SelectedSet(selected))
    IN  IF SentinelSelected(selected) THEN frame
        ELSE SelectSeq(frame, Keep)

Max(a, b) == IF a >= b THEN a ELSE b

Min(a, b) == IF a <= b THEN a ELSE b

\* line 348: the column count of str.split('/', expand=True), the longest
\* row's segment count (no column for a frame without rows)
RECURSIVE SplitWidth(_)
SplitWidth(frame) ==
    IF frame = <<>> THEN 0
    ELSE Max(Len(Split(Head(frame).Folder, "/")), SplitWidth(Tail(frame)))

\* a column count without the cap
NumColumnsUncapped(frame) == SplitWidth(frame)

\* line 349
NumColumns(frame) == Min(SplitWidth(frame), MAX_FOLDER_LEVELS)

\* line 351: cell i of a row; a row with fewer segments holds None there
LevelCell(folder_path, i) ==
    LET parts == Split(folder_path, "/")
    IN  IF i <= Len(parts)
        THEN [present |-> TRUE, value |-> Unescape(parts[i])]
        ELSE [present |-> FALSE, value |-> <<>>]

\* lines 348-352: the rows with their Level_1..Level_k cells
split_folder_levels(frame) ==
    [r \in 1..Len(frame) |->
        [Bookmark |-> frame[r].Bookmark,
         URL |-> frame[r].URL,
         Folder |-> frame[r].Folder,
         Date_Added |-> frame[r].Date_Added,
         Level |-> [i \in 1..NumColumns(frame) |-> LevelCell(frame[r].Folder, i)]]]

-----------------------------------------------------------------------------
(* The frames and selections a caller hands to the two (the parameters df  *)
(* and selected_folders): every frame of at most MaxRecords rows over the  *)
(* folder paths below, every selection of at most MaxSelected names below. *)

DeepPath ==
    <<"c","/","c","/","c","/","c","/","c","/","c","/",
      "c","/","c","/","c","/","c","/","c","/","Z">>

FolderPaths ==
    { <<>>, <<"A">>, <<"a","/","B","/">>, <<"A","B">>,
      <<"X","_","_","_","Y">>, DeepPath }

SelectableNames ==
    { DEFAULT_FOLDER, <<" ">> \o DEFAULT_FOLDER, <<" ","b">>, <<>> }

RowOf(k, folder_path) ==
    [Bookmark |-> <<"T", DigitChars[k + 1]>>,
     URL |-> <<"u", DigitChars[k + 1]>>,
     Folder |-> folder_path,
     Date_Added |-> <<>>]

\* line 313, parameter df: one more row of the frame to filter
AddRow ==
    /\ pc = "parsing"
    /\ Len(df_in) < MaxRecords
    /\ \E f \in FolderPaths : df_in' = Append(df_in, RowOf(Len(df_in) + 1, f))
    /\ UNCHANGED <<cancelled, pc, elements, outcome, all_bookmarks,
                   selected_folders, df, df2, levels,
                   run_vars>>

\* line 313, parameter selected_folders: one more name of the selection
AddSelected ==
    /\ pc = "parsing"
    /\ Len(selected_folders) < MaxSelected
    /\ \E n \in SelectableNames : selected_folders' = Append(selected_folders, n)
    /\ UNCHANGED <<cancelled, pc, elements, outcome, all_bookmarks,
                   df_in, df, df2, levels,
                   run_vars>>

\* line 463
CallFilterBookmarks ==
    /\ pc = "parsing"
    /\ df' = filter_bookmarks(df_in, selected_folders)
    /\ pc' = "filtered"
    /\ UNCHANGED <<cancelled, elements, outcome, all_bookmarks,
                   df_in, selected_folders, df2, levels,
                   run_vars>>

\* filter_bookmarks applied to its own result with the same selection
CallFilterAgain ==
    /\ pc = "filtered"
    /\ df2' = filter_bookmarks(df, selected_folders)
    /\ pc' = "refiltered"
    /\ UNCHANGED <<cancelled, elements, outcome, all_bookmarks,
                   df_in, selected_folders, df, levels,
                   run_vars>>

\* line 464
CallSplitFolderLevels ==
    /\ pc = "filtered"
    /\ levels' = split_folder_levels(df)
    /\ pc' = "split"
    /\ UNCHANGED <<cancelled, elements, outcome, all_bookmarks,
                   df_in, selected_folders, df, df2,
                   run_vars>>

NextTransform ==
    AddRow \/ AddSelected \/ CallFilterBookmarks \/ CallFilterAgain
    \/ CallSplitFolderLevels

SpecTransform == Init /\ [][NextTransform]_vars

-----------------------------------------------------------------------------
(* The claims about the filter and the level split.                        *)

Filtered == pc = "filtered"

\* a segment of the path equals, ignoring case, one of the names
MatchesName(folder_path, names) ==
    \E part \in Range(Split(folder_path, "/")) :
        \E n \in names : Lower(part) = Lower(n)

\* C6 as stated: without the sentinel among the selected names, the
\* result is the rows, in order and unaltered, whose folder path is not
\* empty and has a whole segment equal, ignoring case, to a selected name.
C6_KeptIffSegmentEqualsName ==
    (Filtered /\ DEFAULT_FOLDER \notin Range(selected_folders)) =>
        LET Kept(row) == /\ row.Folder # <<>>
                         /\ MatchesName(row.Folder, Range(selected_folders))
        IN  df = SelectSeq(df_in, Kept)

TrimmedNames(selected) == {Strip(selected[i]) : i \in 1..Len(selected)}

\* C6 as amended: the selected names count with their surrounding
\* whitespace trimmed, the sentinel too.  Without the sentinel among the
\* trimmed names, the result is the rows, in order and unaltered, whose
\* folder path is not empty and has a whole segment equal, ignoring case,
\* to a trimmed selected name.
C6_KeptIffSegmentEqualsTrimmedName ==
    (Filtered /\ DEFAULT_FOLDER \notin TrimmedNames(selected_folders)) =>
        LET Kept(row) == /\ row.Folder # <<>>
                         /\ MatchesName(row.Folder, TrimmedNames(selected_folders))
        IN  df = SelectSeq(df_in, Kept)

\* a row kept on a case-insensitive match of a padded name, beside a row
\* dropped although a selected name is a substring of its only segment
C6_Witness ==
    /\ Filtered
    /\ selected_folders = << <<" ","b">> >>
    /\ \E r \in 1..Len(df_in) : df_in[r].Folder = <<"A","B">>
    /\ \E r \in 1..Len(df_in) : df_in[r].Folder = <<>>
    /\ Len(df) = 1
    /\ df[1].Folder = <<"a","/","B","/">>

\* C7: with the sentinel among the selected names, the result is the
\* input frame, whatever else is selected.
C7_SentinelReturnsAll ==
    (Filtered /\ DEFAULT_FOLDER \in Range(selected_folders)) => df = df_in

\* the sentinel after another name, a frame with a root-level row
C7_Witness ==
    /\ Filtered
    /\ selected_folders = << <<" ","b">>, DEFAULT_FOLDER >>
    /\ Len(df_in) >= 2
    /\ \E r \in 1..Len(df_in) : df_in[r].Folder = <<>>
    /\ \E r \in 1..Len(df_in) : df_in[r].Folder = <<"A","B">>
    /\ df = df_in

SegmentsOf(row) == Split(row.Folder, "/")

\* the largest segment count over the rows (0 without rows)
MaxSegments(frame) ==
    IF frame = <<>> THEN 0
    ELSE LET counts == {Len(SegmentsOf(frame[r])) : r \in 1..Len(frame)}
         IN  CHOOSE m \in counts : \A c \in counts : c <= m

\* C8: split_folder_levels keeps the rows and their order and gives each
\* k = min(largest segment count, MAX_FOLDER_LEVELS) level cells; cell i is
\* the unescaped i-th segment from the root, and empty for a row with
\* fewer than i segments.
C8_LevelColumns ==
    pc = "split" =>
        LET k == IF MaxSegments(df) <= MAX_FOLDER_LEVELS THEN MaxSegments(df)
                 ELSE MAX_FOLDER_LEVELS
        IN  /\ Len(levels) = Len(df)
            /\ \A r \in 1..Len(df) :
                  /\ levels[r].URL = df[r].URL
                  /\ levels[r].Bookmark = df[r].Bookmark
                  /\ levels[r].Folder = df[r].Folder
                  /\ levels[r].Date_Added = df[r].Date_Added
                  /\ Len(levels[r].Level) = k
                  /\ k <= MAX_FOLDER_LEVELS
                  /\ \A i \in 1..k :
                        IF i <= Len(SegmentsOf(df[r]))
                        THEN /\ levels[r].Level[i].present
                             /\ levels[r].Level[i].value =
                                   Replace(SegmentsOf(df[r])[i], Placeholder, Slash)
                        ELSE ~levels[r].Level[i].present

\* a path deeper than the cap beside a shorter one with an escaped slash
C8_Witness ==
    /\ pc = "split"
    /\ Len(df) >= 2
    /\ df[1].Folder = DeepPath
    /\ Len(SegmentsOf(df[1])) > MAX_FOLDER_LEVELS
    /\ df[2].Folder = <<"X","_","_","_","Y">>
    /\ Len(levels[1].Level) = MAX_FOLDER_LEVELS
    /\ levels[2].Level[1].value = <<"X","/","Y">>
    /\ ~levels[2].Level[2].present

-----------------------------------------------------------------------------
(* The workflow of run (lines 446-483), one action per step.  The calls    *)
(* made and the calls that returned are recorded in order.                 *)

MaxRunNodes == 3

InputFile == <<"i","n">>

OutputFile == <<"o","u","t">>

SystemExit(code) == [type |-> "SystemExit", code |-> code]

CancelException == [type |-> "CancelException", code |-> 0]

\* any exception that derives from Exception (OSError, OverflowError, ...)
OtherException == [type |-> "Exception", code |-> 0]

\* a handler whose second clause catches every exception, SystemExit too
ExceptClauseCatchAll(exc) ==
    IF exc.type = "CancelException"
    THEN [exit_status |-> 0, error_shown |-> FALSE]
    ELSE [exit_status |-> 1, error_shown |-> TRUE]

\* lines 478-483: how the process ends when exc leaves the try block of
\* run.  SystemExit is not an Exception: neither clause catches it and the
\* interpreter exits with its code.
ExceptClause(exc) ==
    IF exc.type = "CancelException"
    THEN [exit_status |-> 0, error_shown |-> FALSE]
    ELSE IF exc.type = "SystemExit"
    THEN [exit_status |-> exc.code, error_shown |-> FALSE]
    ELSE [exit_status |-> 1, error_shown |-> TRUE]

\* exc leaves the try block of run
Raise(exc) ==
    /\ pc' = "exited"
    /\ exit_status' = ExceptClause(exc).exit_status
    /\ error_shown' = ExceptClause(exc).error_shown

\* lines 133-139: the names the picker offers.  The list is sorted with
\* DEFAULT_FOLDER on top; only its members matter to what can be selected.
AvailableFolders(doc) ==
    ({ Strip(doc[i].text) : i \in {j \in 1..Len(doc) : doc[j].name = "h3"} }
        \ { <<>> })
    \cup { DEFAULT_FOLDER }

\* the frames of the workflow
frames == <<outcome, all_bookmarks, df_in, df, df2, levels>>

InitRun ==
    /\ cancelled = FALSE
    /\ pc = "get_file_path"
    /\ elements = <<>>
    /\ outcome = "none"
    /\ all_bookmarks = <<>>
    /\ df_in = <<>>
    /\ selected_folders = <<>>
    /\ df = <<>>
    /\ df2 = <<>>
    /\ levels = <<>>
    /\ file_path = <<>>
    /\ excel_path = <<>>
    /\ input_file_column = FALSE
    /\ calls = <<>>
    /\ returns = <<>>
    /\ exit_status = -1
    /\ error_shown = FALSE
    /\ output_files = 0

\* line 448 (lines 77-87): the dialog returns a path or nothing
get_file_path ==
    /\ pc = "get_file_path"
    /\ calls' = Append(calls, "get_file_path")
    /\ \E chosen \in {<<>>, InputFile} :
          IF chosen = <<>>
          THEN /\ Raise(SystemExit(1))
               /\ UNCHANGED <<file_path, returns>>
          ELSE /\ file_path' = chosen
               /\ returns' = Append(returns, "get_file_path")
               /\ pc' = "open"
               /\ UNCHANGED <<exit_status, error_shown>>
    /\ UNCHANGED <<cancelled, elements, selected_folders, frames,
                   excel_path, input_file_column, output_files>>

\* line 451: the file opens, or open or read raises (OSError,
\* UnicodeDecodeError)
open_file ==
    /\ pc = "open"
    /\ \E ok \in BOOLEAN :
          IF ok THEN /\ pc' = "parse"
                     /\ UNCHANGED <<exit_status, error_shown>>
          ELSE Raise(OtherException)
    /\ UNCHANGED <<cancelled, elements, selected_folders, frames,
                   file_path, excel_path, input_file_column, calls, returns,
                   output_files>>

\* line 452: the parser adds the file's next element to the tree
parse_element ==
    /\ pc = "parse"
    /\ Len(elements) < MaxRunNodes
    /\ \E x \in NextNodes(elements) : elements' = Append(elements, x)
    /\ UNCHANGED <<cancelled, pc, selected_folders, frames, run_vars>>

\* line 455 (lines 133-216, 227-244): the picker window opens
select_folders_with_confirm ==
    /\ pc = "parse"
    /\ calls' = Append(calls, "select_folders_with_confirm")
    /\ selected_folders' = <<>>
    /\ pc' = "picker"
    /\ UNCHANGED <<cancelled, elements, frames, file_path, excel_path,
                   input_file_column, returns, exit_status, error_shown,
                   output_files>>

\* lines 181-185: an offered name that is not yet selected is appended
add_selected ==
    /\ pc = "picker"
    /\ Len(selected_folders) < MaxSelected
    /\ \E item \in AvailableFolders(elements) :
          /\ \A k \in DOMAIN selected_folders : selected_folders[k] # item
          /\ selected_folders' = Append(selected_folders, item)
    /\ UNCHANGED <<cancelled, pc, elements, frames, run_vars>>

\* lines 186-188: a selected name is removed
remove_selected ==
    /\ pc = "picker"
    /\ \E i \in DOMAIN selected_folders :
          selected_folders' =
              SubSeq(selected_folders, 1, i - 1)
              \o SubSeq(selected_folders, i + 1, Len(selected_folders))
    /\ UNCHANGED <<cancelled, pc, elements, frames, run_vars>>

\* lines 217-222 and 246: the Confirm button or the Return key
on_confirm ==
    /\ pc = "picker"
    /\ selected_folders' = IF selected_folders = <<>> THEN <<DEFAULT_FOLDER>>
                           ELSE selected_folders
    /\ returns' = Append(returns, "select_folders_with_confirm")
    /\ pc' = "process_bookmarks"
    /\ UNCHANGED <<cancelled, elements, frames, file_path, excel_path,
                   input_file_column, calls, exit_status, error_shown,
                   output_files>>

\* lines 223-226: the Cancel button.  The SystemExit leaves the callback,
\* mainloop and run.
on_cancel ==
    /\ pc = "picker"
    /\ cancelled' = TRUE
    /\ Raise(SystemExit(0))
    /\ UNCHANGED <<elements, selected_folders, frames, file_path, excel_path,
                   input_file_column, calls, returns, output_files>>

\* lines 145 and 248-257: the picker window is closed
on_window_close ==
    /\ pc = "picker"
    /\ cancelled' = TRUE
    /\ Raise(SystemExit(0))
    /\ UNCHANGED <<elements, selected_folders, frames, file_path, excel_path,
                   input_file_column, calls, returns, output_files>>

\* lines 459-460: the extraction returns the records, or raises
RunProcessBookmarks ==
    /\ pc = "process_bookmarks"
    /\ calls' = Append(calls, "process_bookmarks")
    /\ LET r == process_bookmarks(elements, cancelled)
       IN  /\ outcome' = r.status
           /\ all_bookmarks' = r.records
           /\ df_in' = r.records
           /\ IF r.status = "returned"
              THEN /\ returns' = Append(returns, "process_bookmarks")
                   /\ pc' = "filter_bookmarks"
                   /\ UNCHANGED <<exit_status, error_shown>>
              ELSE /\ Raise(IF r.status = "CancelException"
                            THEN CancelException ELSE OtherException)
                   /\ UNCHANGED returns
    /\ UNCHANGED <<cancelled, elements, selected_folders, df, df2, levels,
                   file_path, excel_path, input_file_column, output_files>>

\* line 463
RunFilterBookmarks ==
    /\ pc = "filter_bookmarks"
    /\ calls' = Append(calls, "filter_bookmarks")
    /\ df' = filter_bookmarks(df_in, selected_folders)
    /\ returns' = Append(returns, "filter_bookmarks")
    /\ pc' = "split_folder_levels"
    /\ UNCHANGED <<cancelled, elements, selected_folders, outcome,
                   all_bookmarks, df_in, df2, levels, file_path, excel_path,
                   input_file_column, exit_status, error_shown, output_files>>

\* line 464
RunSplitFolderLevels ==
    /\ pc = "split_folder_levels"
    /\ calls' = Append(calls, "split_folder_levels")
    /\ levels' = split_folder_levels(df)
    /\ returns' = Append(returns, "split_folder_levels")
    /\ pc' = "ask_store_input_filename"
    /\ UNCHANGED <<cancelled, elements, selected_folders, outcome,
                   all_bookmarks, df_in, df, df2, file_path, excel_path,
                   input_file_column, exit_status, error_shown, output_files>>

\* lines 467-468 (lines 364-371): the answer to the yes/no dialog
ask_store_input_filename ==
    /\ pc = "ask_store_input_filename"
    /\ calls' = Append(calls, "ask_store_input_filename")
    /\ \E response \in BOOLEAN : input_file_column' = response
    /\ returns' = Append(returns, "ask_store_input_filename")
    /\ pc' = "get_save_file_path"
    /\ UNCHANGED <<cancelled, elements, selected_folders, frames, file_path,
                   excel_path, exit_status, error_shown, output_files>>

\* line 472 (lines 103-115): the dialog returns a path or nothing
get_save_file_path ==
    /\ pc = "get_save_file_path"
    /\ calls' = Append(calls, "get_save_file_path")
    /\ \E chosen \in {<<>>, OutputFile} :
          IF chosen = <<>>
          THEN /\ Raise(SystemExit(1))
               /\ UNCHANGED <<excel_path, returns>>
          ELSE /\ excel_path' = chosen
               /\ returns' = Append(returns, "get_save_file_path")
               /\ pc' = "save_to_excel"
               /\ UNCHANGED <<exit_status, error_shown>>
    /\ UNCHANGED <<cancelled, elements, selected_folders, frames, file_path,
                   input_file_column, output_files>>

\* line 473 (lines 384-409): the workbook is written, or writing raises
\* after the file may have been created (line 385)
save_to_excel ==
    /\ pc = "save_to_excel"
    /\ calls' = Append(calls, "save_to_excel")
    /\ \E written \in BOOLEAN, created \in BOOLEAN :
          IF written
          THEN /\ created
               /\ output_files' = output_files + 1
               /\ returns' = Append(returns, "save_to_excel")
               /\ pc' = "show_summary"
               /\ UNCHANGED <<exit_status, error_shown>>
          ELSE /\ output_files' = IF created THEN output_files + 1
                                  ELSE output_files
               /\ Raise(OtherException)
               /\ UNCHANGED returns
    /\ UNCHANGED <<cancelled, elements, selected_folders, frames, file_path,
                   excel_path, input_file_column>>

\* line 477 (lines 419-430): the summary is closed, run returns and the
\* script ends
show_summary ==
    /\ pc = "show_summary"
    /\ calls' = Append(calls, "show_summary")
    /\ returns' = Append(returns, "show_summary")
    /\ pc' = "done"
    /\ exit_status' = 0
    /\ UNCHANGED <<cancelled, elements, selected_folders, frames, file_path,
                   excel_path, input_file_column, error_shown, output_files>>

Next ==
    \/ get_file_path
    \/ open_file
    \/ parse_element
    \/ select_folders_with_confirm
    \/ add_selected
    \/ remove_selected
    \/ on_confirm
    \/ on_cancel
    \/ on_window_close
    \/ RunProcessBookmarks
    \/ RunFilterBookmarks
    \/ RunSplitFolderLevels
    \/ ask_store_input_filename
    \/ get_save_file_path
    \/ save_to_excel
    \/ show_summary

Spec == InitRun /\ [][Next]_vars

-----------------------------------------------------------------------------
(* The claims about the workflow.                                          *)

Exited == pc = "exited"

Count(seq, x) == Cardinality({i \in DOMAIN seq : seq[i] = x})

\* a occurs in seq exactly once, b at most once and only after a
OnceBefore(seq, a, b) ==
    /\ Count(seq, a) = 1
    /\ Count(seq, b) <= 1
    /\ \A i, j \in DOMAIN seq : (seq[i] = a /\ seq[j] = b) => i < j

SaveInvoked == Count(calls, "save_to_excel") >= 1

\* the last call made did not return: it raised or exited
EndedIn(f) == Exited /\ calls # <<>> /\ calls[Len(calls)] = f
              /\ Count(returns, f) < Count(calls, f)

\* the Cancel button, the closed picker window, or CancelException
CancelledRun == Exited /\ cancelled

MissingFileChoice ==
    (EndedIn("get_file_path") \/ EndedIn("get_save_file_path"))
    /\ ~error_shown

FailedBeforeWrite == Exited /\ error_shown /\ ~SaveInvoked

\* C11: save_to_excel is invoked at most once, and only after
\* process_bookmarks, filter_bookmarks and split_folder_levels have
\* returned, in that order; a run that ends by cancellation, by a missing
\* input or output file choice or by a failure before the write step has
\* written no output file, and a cancelled run has exit status 0 without
\* the error dialog.
C11_WorkflowOrdering ==
    /\ Count(calls, "save_to_excel") <= 1
    /\ output_files <= Count(calls, "save_to_excel")
    /\ SaveInvoked =>
          /\ OnceBefore(returns, "process_bookmarks", "filter_bookmarks")
          /\ OnceBefore(returns, "filter_bookmarks", "split_folder_levels")
          /\ OnceBefore(returns, "split_folder_levels", "save_to_excel")
          /\ outcome = "returned"
          /\ df = filter_bookmarks(all_bookmarks, selected_folders)
          /\ levels = split_folder_levels(df)
    /\ (CancelledRun \/ MissingFileChoice \/ FailedBeforeWrite) =>
          /\ ~SaveInvoked
          /\ output_files = 0
    /\ CancelledRun => (exit_status = 0 /\ ~error_shown)
    /\ MissingFileChoice => exit_status = 1
    /\ Exited => exit_status \in {0, 1}

\* a run that extracted some records, kept some for a selected folder,
\* split them, wrote the workbook once and ended normally
C11_Witness ==
    /\ pc = "done"
    /\ exit_status = 0
    /\ output_files = 1
    /\ ~SentinelSelected(selected_folders)
    /\ Len(df) >= 1
    /\ Len(levels) = Len(df)
    /\ returns = <<"get_file_path", "select_folders_with_confirm",
                   "process_bookmarks", "filter_bookmarks",
                   "split_folder_levels", "ask_store_input_filename",
                   "get_save_file_path", "save_to_excel", "show_summary">>

\* the names the picker offers that are the trimmed text of a header
HeaderNames(doc) ==
    { Strip(doc[i].text) : i \in HeaderIndices(doc) } \ { <<>> }

\* the folder path of row has a segment made by a header named name
\* (line 306 escapes the name, line 309 joins the segments)
PassesThrough(row, name) ==
    FolderName(name) \in Range(SegmentsOf(row))

\* the run has filtered the extracted records with the selection [name]
FilteredWith(name) ==
    /\ Count(returns, "filter_bookmarks") = 1
    /\ selected_folders = <<name>>

\* C12: for every folder name N the picker offers and every record of
\* process_bookmarks whose folder path passes through a header named N,
\* filter_bookmarks with the selection [N] keeps the record.
C12_SelectionKeepsFolder ==
    \A name \in HeaderNames(elements) :
        FilteredWith(name) =>
            \A k \in DOMAIN all_bookmarks :
                PassesThrough(all_bookmarks[k], name)
                    => all_bookmarks[k] \in Range(df)

====
